---- MODULE Spec2Model ----
(***************************************************************************)
(* Text-overlay layout engine of versecanvas (src/text_overlay.py).        *)
(*                                                                         *)
(* Strings are sequences of one-character strings, images are objects of   *)
(* a heap addressed by identity, and the pixel buffer of an image is the   *)
(* list of the writes PIL applied to it since it was created.              *)
(***************************************************************************)
EXTENDS Integers, Sequences, FiniteSets, TLC

VARIABLES
    fs,             \* font files that exist on disk (os.path.exists)
    unloadable,     \* font files that exist but ImageFont.truetype rejects
    default_fonts,  \* TextOverlay.default_fonts
    heap,           \* image objects by identity
    pre,            \* copy of the input image taken before the call
    args,           \* arguments of the running add_text_overlay call
    loc,            \* local variables of add_text_overlay
    pc,             \* position in add_text_overlay / add_poem_to_image
    ret,            \* identity of the returned image
    call,           \* a direct call of one helper method: its name and inputs
    result,         \* what that helper returned
    other,          \* a second add_text_overlay call in progress, not running now
    session_state   \* st.session_state of the application (src/app.py)

vars == <<fs, unloadable, default_fonts, heap, pre, args, loc, pc, ret, call, result,
          other, session_state>>

None == "None"

\* the result of a helper call: not returned yet, or the value returned
Pending == [returned |-> FALSE]
Returned(value) == [returned |-> TRUE, value |-> value]

\* no helper is called directly
NoCall == [fn |-> "none"]

\* no second call
NoOther == [pc |-> "none"]

\* the application is not running
NoSession == [images |-> <<>>, edited_images |-> <<>>, current_poem |-> <<>>,
              reset_counter |-> <<>>]

\* a font handle not resolved yet
NoFont == [kind |-> "unset"]

-----------------------------------------------------------------------------
(* Bounds of the model *)

MaxParas == 3       \* paragraphs of an input text
MaxTokens == 5      \* tokens of a one-paragraph input text
MaxLines == 3       \* display lines handed directly to _calculate_text_size

(* Program constants *)

WrapWidth == 50         \* textwrap.TextWrapper(width=50)
BitmapCharWidth == 6    \* glyph advance of the font ImageFont.load_default() returns
BitmapLineHeight == 11  \* height of "Ag" in that font

-----------------------------------------------------------------------------
(* Python str helpers *)

IsSpace(c) == c = " "

RECURSIVE Flatten(_)
Flatten(ss) == IF ss = <<>> THEN <<>> ELSE Head(ss) \o Flatten(Tail(ss))

\* "\n".join(ps)
RECURSIVE JoinNewline(_)
JoinNewline(ps) ==
    IF Len(ps) = 1 THEN ps[1] ELSE ps[1] \o <<"\n">> \o JoinNewline(Tail(ps))

\* the members of a finite set of integers in increasing order
Ascending(S) ==
    [k \in 1..Cardinality(S) |-> CHOOSE x \in S : Cardinality({y \in S : y < x}) = k - 1]

\* text.split('\n'): the pieces between consecutive newlines
SplitNewline(s) ==
    LET N == Ascending({i \in 1..Len(s) : s[i] = "\n"})
        from(k) == IF k = 1 THEN 1 ELSE N[k - 1] + 1
        upto(k) == IF k = Len(N) + 1 THEN Len(s) ELSE N[k] - 1
    IN  [k \in 1..(Len(N) + 1) |-> SubSeq(s, from(k), upto(k))]

\* s.strip() == ''
IsBlank(s) == \A i \in 1..Len(s) : IsSpace(s[i])

\* the maximal runs of s whose first character satisfies Keep
Runs(s, Keep(_)) ==
    LET B == Ascending({i \in 1..Len(s) : i = 1 \/ IsSpace(s[i]) # IsSpace(s[i - 1])})
        run(k) == SubSeq(s, B[k], IF k = Len(B) THEN Len(s) ELSE B[k + 1] - 1)
        K == Ascending({k \in 1..Len(B) : Keep(s[B[k]])})
    IN  [j \in 1..Len(K) |-> run(K[j])]

NotSpace(c) == ~IsSpace(c)
AnyChar(c) == TRUE

\* s.split(): the maximal runs of non-whitespace
SplitWords(s) == Runs(s, NotSpace)

-----------------------------------------------------------------------------
(* textwrap.TextWrapper(width=50).wrap, with the defaults the code leaves:  *)
(* drop_whitespace, break_long_words.                                       *)

\* TextWrapper._split: maximal runs of whitespace and of non-whitespace
Chunks(s) == Runs(s, AnyChar)

\* the inner "while chunks" loop of _wrap_chunks: take chunks while they fit
RECURSIVE FillLine(_, _, _)
FillLine(chunks, cur_line, cur_len) ==
    IF chunks # <<>> /\ cur_len + Len(Head(chunks)) <= WrapWidth
    THEN FillLine(Tail(chunks), Append(cur_line, Head(chunks)), cur_len + Len(Head(chunks)))
    ELSE [chunks |-> chunks, cur_line |-> cur_line, cur_len |-> cur_len]

\* TextWrapper._handle_long_word with break_long_words=True: the head of the
\* chunk that fills the line is cut off and put on the line
HandleLongWord(st) ==
    LET space_left == IF WrapWidth < 1 THEN 1 ELSE WrapWidth - st.cur_len
        chunk == Head(st.chunks)
    IN  [chunks |-> <<SubSeq(chunk, space_left + 1, Len(chunk))>> \o Tail(st.chunks),
         cur_line |-> Append(st.cur_line, SubSeq(chunk, 1, space_left)),
         cur_len |-> st.cur_len + space_left]

\* TextWrapper._wrap_chunks
RECURSIVE WrapChunks(_, _)
WrapChunks(chunks, lines) ==
    IF chunks = <<>> THEN lines
    ELSE
      LET c0 == IF IsBlank(Head(chunks)) /\ lines # <<>> THEN Tail(chunks) ELSE chunks
          s1 == FillLine(c0, <<>>, 0)
          s2 == IF s1.chunks # <<>> /\ Len(Head(s1.chunks)) > WrapWidth
                THEN HandleLongWord(s1) ELSE s1
          cl == IF s2.cur_line # <<>> /\ IsBlank(s2.cur_line[Len(s2.cur_line)])
                THEN SubSeq(s2.cur_line, 1, Len(s2.cur_line) - 1) ELSE s2.cur_line
      IN  WrapChunks(s2.chunks, IF cl # <<>> THEN Append(lines, Flatten(cl)) ELSE lines)

TextWrapperWrap(paragraph) == WrapChunks(Chunks(paragraph), <<>>)

-----------------------------------------------------------------------------
(* Fonts and text measurement.  A font handle is the built-in bitmap font   *)
(* or a scalable font bound to a file and a pixel size.  In a scalable font *)
(* a glyph is one unit wide ("b": two units) and a unit is size pixels.     *)

DefaultFont == [kind |-> "default"]
TrueTypeFont(path, size) == [kind |-> "truetype", path |-> path, size |-> size]

GlyphUnits(text) == Len(text) + Cardinality({i \in 1..Len(text) : text[i] = "b"})

\* draw.textbbox((0, 0), text, font=font): <<x0, y0, x1, y1>>
TextBBox(text, font) ==
    IF text = <<>> THEN <<0, 0, 0, 0>>
    ELSE IF font.kind = "default"
         THEN <<0, 0, BitmapCharWidth * Len(text), BitmapLineHeight>>
         ELSE <<0, 0, font.size * GlyphUnits(text), font.size>>

_get_text_width(text, font) ==
    LET bbox == TextBBox(text, font) IN bbox[3] - bbox[1]

\* the probe of lines 214-215 and 278-279
ProbeLineHeight(font) ==
    LET bbox == TextBBox(<<"A", "g">>, font) IN bbox[4] - bbox[2]

-----------------------------------------------------------------------------
(* TextOverlay._wrap_text *)

ResplitWords_OneWordPerLine(words, current_line, final_lines, font, max_width) ==
    final_lines \o words

\* lines 175-186: re-split one coarse line word by word
RECURSIVE ResplitWords(_, _, _, _, _)
ResplitWords(words, current_line, final_lines, font, max_width) ==
    IF words = <<>>
    THEN (IF current_line # <<>> THEN Append(final_lines, current_line) ELSE final_lines)
    ELSE
      LET word == Head(words)
          test_line == IF current_line # <<>> THEN current_line \o <<" ">> \o word ELSE word
      IN  IF _get_text_width(test_line, font) <= max_width
          THEN ResplitWords(Tail(words), test_line, final_lines, font, max_width)
          ELSE ResplitWords(Tail(words), word,
                            IF current_line # <<>> THEN Append(final_lines, current_line)
                                                   ELSE final_lines,
                            font, max_width)

RefineLine_Unmeasured(line, font, max_width) == <<line>>

\* lines 170-186: one coarse line is kept when it fits and re-split otherwise
RefineLine(line, font, max_width) ==
    IF _get_text_width(line, font) <= max_width
    THEN <<line>>
    ELSE ResplitWords(SplitWords(line), <<>>, <<>>, font, max_width)

CoarseWrap_Unwrapped(paragraph) == <<paragraph>>

\* lines 164-166: the coarse, character-count pass
CoarseWrap(paragraph) == TextWrapperWrap(paragraph)

WrapParagraph_DropBlank(paragraph, font, max_width) ==
    IF IsBlank(paragraph)
    THEN <<>>
    ELSE LET wrapped_lines == CoarseWrap(paragraph)
         IN  Flatten([k \in 1..Len(wrapped_lines) |->
                         RefineLine(wrapped_lines[k], font, max_width)])

\* lines 159-188: the display lines of one paragraph
WrapParagraph(paragraph, font, max_width) ==
    IF IsBlank(paragraph)
    THEN << <<>> >>
    ELSE LET wrapped_lines == CoarseWrap(paragraph)
         IN  Flatten([k \in 1..Len(wrapped_lines) |->
                         RefineLine(wrapped_lines[k], font, max_width)])

_wrap_text(text, font, max_width) ==
    LET paragraphs == SplitNewline(text)
    IN  Flatten([k \in 1..Len(paragraphs) |-> WrapParagraph(paragraphs[k], font, max_width)])

-----------------------------------------------------------------------------
(* TextOverlay._calculate_text_size and _calculate_position *)

Max(a, b) == IF a >= b THEN a ELSE b
Min(a, b) == IF a <= b THEN a ELSE b

\* lines 206-209: the running maximum of the line widths, from 0
RECURSIVE WidestLine(_, _, _)
WidestLine(lines, font, max_width) ==
    IF lines = <<>> THEN max_width
    ELSE WidestLine(Tail(lines), font, Max(max_width, _get_text_width(Head(lines), font)))

_calculate_text_size_SpacingPerLine(lines, font, line_spacing) ==
    IF lines = <<>> THEN <<0, 0>>
    ELSE <<WidestLine(lines, font, 0),
           Len(lines) * (ProbeLineHeight(font) + line_spacing)>>

_calculate_text_size_TallLines(lines, font, line_spacing) ==
    IF lines = <<>> THEN <<0, 0>>
    ELSE LET line_height == ProbeLineHeight(font) + 2
         IN  <<WidestLine(lines, font, 0),
               Len(lines) * line_height + (Len(lines) - 1) * line_spacing>>

\* lines 202-219
_calculate_text_size(lines, font, line_spacing) ==
    IF lines = <<>> THEN <<0, 0>>
    ELSE LET line_height == ProbeLineHeight(font)
         IN  <<WidestLine(lines, font, 0),
               Len(lines) * line_height + (Len(lines) - 1) * line_spacing>>

_calculate_position_BottomNoMargin(img_width, img_height, text_width, text_height, position, margin) ==
    LET cx == (img_width - text_width) \div 2
        cy == (img_height - text_height) \div 2
        xy == CASE position = "top"    -> <<cx, margin>>
                [] position = "bottom" -> <<cx, img_height - text_height>>
                [] position = "left"   -> <<margin, cy>>
                [] position = "right"  -> <<img_width - text_width - margin, cy>>
                [] OTHER               -> <<cx, cy>>
    IN  <<Max(0, xy[1]), Max(0, xy[2])>>

_calculate_position_DoubleMargin(img_width, img_height, text_width, text_height, position, margin) ==
    LET cx == (img_width - text_width) \div 2
        cy == (img_height - text_height) \div 2
        xy == CASE position = "top"    -> <<cx, 2 * margin>>
                [] position = "bottom" -> <<cx, img_height - text_height - 2 * margin>>
                [] position = "left"   -> <<2 * margin, cy>>
                [] position = "right"  -> <<img_width - text_width - 2 * margin, cy>>
                [] OTHER               -> <<cx, cy>>
    IN  <<Max(0, xy[1]), Max(0, xy[2])>>

_calculate_position_Unclamped(img_width, img_height, text_width, text_height, position, margin) ==
    LET cx == (img_width - text_width) \div 2
        cy == (img_height - text_height) \div 2
    IN  CASE position = "top"    -> <<cx, margin>>
          [] position = "bottom" -> <<cx, img_height - text_height - margin>>
          [] position = "left"   -> <<margin, cy>>
          [] position = "right"  -> <<img_width - text_width - margin, cy>>
          [] OTHER               -> <<cx, cy>>

\* lines 226-245; // is the floor division
_calculate_position(img_width, img_height, text_width, text_height, position, margin) ==
    LET cx == (img_width - text_width) \div 2
        cy == (img_height - text_height) \div 2
        xy == CASE position = "center" -> <<cx, cy>>
                [] position = "top"    -> <<cx, margin>>
                [] position = "bottom" -> <<cx, img_height - text_height - margin>>
                [] position = "left"   -> <<margin, cy>>
                [] position = "right"  -> <<img_width - text_width - margin, cy>>
                [] OTHER               -> <<cx, cy>>
    IN  <<Max(0, xy[1]), Max(0, xy[2])>>

-----------------------------------------------------------------------------
(* Font resolution: TextOverlay._get_default_fonts and _get_font *)

\* lines 26-38
font_paths ==
    << "C:/Windows/Fonts/arial.ttf",
       "C:/Windows/Fonts/times.ttf",
       "C:/Windows/Fonts/calibri.ttf",
       "/System/Library/Fonts/Arial.ttf",
       "/System/Library/Fonts/Times.ttc",
       "/System/Library/Fonts/Helvetica.ttc",
       "/usr/share/fonts/truetype/dejavu/DejaVuSans.ttf",
       "/usr/share/fonts/truetype/liberation/LiberationSerif-Regular.ttf" >>

_get_default_fonts(exists) == SelectSeq(font_paths, LAMBDA font_path : font_path \in exists)

\* lines 124-130
font_map ==
    ("arial" :> <<"arial.ttf", "Arial.ttf">>) @@
    ("times" :> <<"times.ttf", "Times.ttc", "times new roman.ttf">>) @@
    ("helvetica" :> <<"helvetica.ttf", "Helvetica.ttc">>) @@
    ("serif" :> <<"times.ttf", "liberation-serif.ttf", "DejaVuSerif.ttf">>) @@
    ("sans-serif" :> <<"arial.ttf", "liberation-sans.ttf", "DejaVuSans.ttf">>)

base_paths == <<"/System/Library/Fonts/", "C:/Windows/Fonts/", "/usr/share/fonts/truetype/">>

Lower_Identity(style) == style

\* style.lower() on the style keywords
Lower(style) ==
    CASE style \in {"Serif", "SERIF", "serif"} -> "serif"
      [] style \in {"Arial", "ARIAL", "arial"} -> "arial"
      [] style \in {"Times", "TIMES", "times"} -> "times"
      [] style \in {"Helvetica", "HELVETICA", "helvetica"} -> "helvetica"
      [] style \in {"Sans-Serif", "SANS-SERIF", "sans-serif"} -> "sans-serif"
      [] OTHER -> style

\* lines 134-136: the candidate paths of a style, file names outermost
StyleCandidates(style) ==
    IF Lower(style) \in DOMAIN font_map
    THEN LET names == font_map[Lower(style)]
         IN  Flatten([n \in 1..Len(names) |->
                        [b \in 1..Len(base_paths) |-> base_paths[b] \o names[n]]])
    ELSE <<>>

\* ImageFont.truetype(path, size) returns a font (otherwise it raises)
TrueTypeLoads(path, size, exists, bad) == path \in exists /\ path \notin bad /\ size > 0

\* lines 141-148: the first font of default_fonts that loads, else the built-in
RECURSIVE FirstLoadable(_, _, _, _)
FirstLoadable(paths, size, exists, bad) ==
    IF paths = <<>> THEN DefaultFont
    ELSE IF TrueTypeLoads(Head(paths), size, exists, bad)
         THEN TrueTypeFont(Head(paths), size)
         ELSE FirstLoadable(Tail(paths), size, exists, bad)

_get_font_NoFallback(size, style, dfonts, exists, bad) ==
    LET present == SelectSeq(StyleCandidates(style), LAMBDA font_path : font_path \in exists)
    IN  IF present # <<>>
        THEN TrueTypeFont(present[1], size)
        ELSE IF dfonts # <<>> THEN TrueTypeFont(dfonts[1], size)
             ELSE TrueTypeFont(font_paths[1], size)

\* lines 122-152.  The first style candidate that exists is loaded without a
\* guard of its own: when loading it raises, the outer handler returns the
\* built-in font, as it does when style has no lower() (style None).
_get_font(size, style, dfonts, exists, bad) ==
    IF style = None THEN DefaultFont
    ELSE
    LET present == SelectSeq(StyleCandidates(style), LAMBDA font_path : font_path \in exists)
    IN  IF present # <<>>
        THEN IF TrueTypeLoads(present[1], size, exists, bad)
             THEN TrueTypeFont(present[1], size)
             ELSE DefaultFont
        ELSE FirstLoadable(dfonts, size, exists, bad)

-----------------------------------------------------------------------------
(* Images.  px lists the writes applied to the pixel buffer since the image *)
(* was opened: two images of one origin have the same pixels exactly when   *)
(* their lists are equal.                                                   *)

NewImage(width, height, mode) == [width |-> width, height |-> height, mode |-> mode, px |-> <<>>]

ImageCopy_Alias(h, id) == [heap |-> h, id |-> id]

ImageCopy_Transposed(h, id) ==
    [heap |-> Append(h, [h[id] EXCEPT !.width = h[id].height, !.height = h[id].width]),
     id |-> Len(h) + 1]

ImageCopy_Scratch(h, id) ==
    IF Len(h) >= 3 THEN [heap |-> h, id |-> 3]
    ELSE [heap |-> Append(h, h[id]), id |-> Len(h) + 1]

\* image.copy(): a new object holding the same size, mode and pixels
ImageCopy(h, id) == [heap |-> Append(h, h[id]), id |-> Len(h) + 1]

\* ImageDraw accepts a colour tuple of three or four integers on RGB/RGBA
ValidInk(color) == Len(color) \in {3, 4}

Clip8(v) == Max(0, Min(255, v))

\* lines 257-260
PlateBox(img, x, y, width, height, padding) ==
    << Max(0, x - padding), Max(0, y - padding),
       Min(img.width, x + width + padding), Min(img.height, y + height + padding) >>

\* line 263, opacity in tenths: color + (int(255 * opacity),)
PlateInk(color, opacity) == Append(color, (255 * opacity) \div 10)

\* ImageDraw.rectangle rejects a colour it cannot parse, and (in the
\* releases that check it) a box whose second corner precedes the first
BackgroundMustRaise(color, opacity) == ~ValidInk(PlateInk(color, opacity))
BackgroundMayRaise(box) == box[3] < box[1] \/ box[4] < box[2]

_add_text_background_Opaque(img, x, y, width, height, color, opacity, padding) ==
    [img EXCEPT !.px = Append(@,
        [op |-> "plate",
         box |-> PlateBox(img, x, y, width, height, padding),
         fill |-> [k \in 1..Len(color) |-> Clip8(color[k])] \o <<255>>])]

\* lines 253-267: the write _add_text_background applies to the image
_add_text_background(img, x, y, width, height, color, opacity, padding) ==
    LET ink == PlateInk(color, opacity)
    IN  [img EXCEPT !.px = Append(@,
            [op |-> "plate",
             box |-> PlateBox(img, x, y, width, height, padding),
             fill |-> [k \in 1..Len(ink) |-> Clip8(ink[k])]])]

\* line 264: ImageDraw.rectangle fills the box, both corners included
InBox(box, xy) ==
    /\ box[1] <= xy[1] /\ xy[1] <= box[3]
    /\ box[2] <= xy[2] /\ xy[2] <= box[4]

\* lines 253 and 264: a pixel of the overlay, transparent outside the box
OverlayPixel(plate, xy) == IF InBox(plate.box, xy) THEN plate.fill ELSE <<0, 0, 0, 0>>

\* line 267, image.convert('RGBA'): an RGB pixel becomes opaque
ConvertRGBA(mode, pixel) == IF mode = "RGBA" THEN pixel ELSE pixel \o <<255>>

\* the rounded division by 255 of the compositing routine
ShiftForDiv255(a) == ((a \div 256) + a) \div 256

\* line 267, Image.alpha_composite(dst, src): src over dst, in the integer
\* arithmetic of the library (7 extra bits of precision)
AlphaComposite(dst, src) ==
    IF src[4] = 0 THEN dst
    ELSE LET blend == dst[4] * (255 - src[4])
             outa255 == src[4] * 255 + blend
             coef1 == (src[4] * 255 * 255 * 128) \div outa255
             coef2 == 255 * 128 - coef1
             channel(k) == ShiftForDiv255(src[k] * coef1 + dst[k] * coef2 + 128 * 128) \div 128
         IN  <<channel(1), channel(2), channel(3), ShiftForDiv255(outa255 + 128)>>

\* line 267, .convert('RGB'): the alpha channel is dropped
ConvertRGB(pixel) == SubSeq(pixel, 1, 3)

\* line 267, image.paste(rgb): the pasted image is converted to the mode of
\* the destination, an RGB pixel becoming an opaque RGBA pixel
PastePixel(mode, rgb) == IF mode = "RGBA" THEN rgb \o <<255>> ELSE rgb

\* lines 253-267: the pixel at xy after the plate is written over pixel
PlatePixel(plate, mode, xy, pixel) ==
    PastePixel(mode, ConvertRGB(AlphaComposite(ConvertRGBA(mode, pixel),
                                               OverlayPixel(plate, xy))))

\* the pixel at xy, not covered by a glyph, after the writes px are applied in
\* order to an image of the given mode: the plates change it, the text does
\* not
RECURSIVE PixelAfter(_, _, _, _)
PixelAfter(px, mode, xy, pixel) ==
    IF px = <<>> THEN pixel
    ELSE PixelAfter(Tail(px), mode, xy,
                    IF Head(px).op = "plate" THEN PlatePixel(Head(px), mode, xy, pixel)
                                             ELSE pixel)

LineX_Centered(line, lines, x, font, line_spacing, alignment) ==
    x + (_calculate_text_size(lines, font, line_spacing)[1] - _get_text_width(line, font)) \div 2

\* lines 283-290
LineX(line, lines, x, font, line_spacing, alignment) ==
    CASE alignment = "center" ->
            x + (_calculate_text_size(lines, font, line_spacing)[1]
                    - _get_text_width(line, font)) \div 2
      [] alignment = "right" ->
            x + (_calculate_text_size(lines, font, line_spacing)[1]
                    - _get_text_width(line, font))
      [] OTHER -> x

_draw_text_SkipBlank(img, lines, x, y, font, color, line_spacing, alignment) ==
    LET line_height == ProbeLineHeight(font)
        shown == SelectSeq(lines, LAMBDA line : line # <<>>)
    IN  [img EXCEPT !.px = @ \o
            [i \in 1..Len(shown) |->
                [op |-> "text",
                 xy |-> <<LineX(shown[i], lines, x, font, line_spacing, alignment),
                          y + (i - 1) * (line_height + line_spacing)>>,
                 text |-> shown[i],
                 fill |-> color]]]

\* lines 275-293: the writes _draw_text applies to the image
_draw_text(img, lines, x, y, font, color, line_spacing, alignment) ==
    LET line_height == ProbeLineHeight(font)
    IN  [img EXCEPT !.px = @ \o
            [i \in 1..Len(lines) |->
                [op |-> "text",
                 xy |-> <<LineX(lines[i], lines, x, font, line_spacing, alignment),
                          y + (i - 1) * (line_height + line_spacing)>>,
                 text |-> lines[i],
                 fill |-> color]]]

\* draw.text rejects a colour it cannot parse
DrawRaises(lines, color) == lines # <<>> /\ ~ValidInk(color)

-----------------------------------------------------------------------------
(* Input texts *)

LongWord == [i \in 1..(WrapWidth + 1) |-> "a"]

Tokens == {<<"a">>, <<"b">>, LongWord, <<" ">>}

TokenSeqs(n) == UNION {[1..k -> Tokens] : k \in 0..n}

\* one paragraph of up to MaxTokens tokens
Paragraphs == {Flatten(ts) : ts \in TokenSeqs(MaxTokens)}

\* up to MaxParas paragraphs of at most one token each
ShortParagraphs == {Flatten(ts) : ts \in TokenSeqs(1)}

\* a run of spaces as long as a coarse line
Gap == [i \in 1..WrapWidth |-> " "]

\* paragraphs of more than WrapWidth characters of which most are spaces
PaddedTexts ==
    { <<"a">> \o Gap, Gap \o <<"a">>, <<"a">> \o Gap \o <<" ">>,
      <<"a">> \o Gap \o <<"b">>, <<"a", " ", "b">> \o Gap \o <<"\n", "b">> }

Texts ==
    Paragraphs \cup
    {JoinNewline(ps) : ps \in UNION {[1..k -> ShortParagraphs] : k \in 1..MaxParas}} \cup
    PaddedTexts

-----------------------------------------------------------------------------
(* Direct calls of the helper methods *)

NoOverlayCall ==
    /\ fs = {} /\ unloadable = {} /\ default_fonts = <<>>
    /\ heap = <<>> /\ pre = None /\ args = None /\ loc = None
    /\ pc = "idle" /\ ret = 0
    /\ other = NoOther /\ session_state = NoSession

OverlayUnchanged ==
    UNCHANGED <<fs, unloadable, default_fonts, heap, pre, args, loc, pc, ret,
                other, session_state>>

WrapFonts == {DefaultFont, TrueTypeFont("C:/Windows/Fonts/arial.ttf", 2)}
WrapMaxWidths == {0, 8, 400}

InitWrap ==
    /\ NoOverlayCall
    /\ call \in {[fn |-> "_wrap_text", text |-> t, font |-> f, max_width |-> m] :
                    t \in Texts, f \in WrapFonts, m \in WrapMaxWidths}
    /\ result = Pending

Call_wrap_text ==
    /\ call.fn = "_wrap_text"
    /\ result = Pending
    /\ result' = Returned(_wrap_text(call.text, call.font, call.max_width))
    /\ UNCHANGED call
    /\ OverlayUnchanged

NextWrap == Call_wrap_text

SpecWrap == InitWrap /\ [][NextWrap]_vars

SizeLines == { <<>>, <<"a">>, <<"a", " ", "b">>, <<"b", "b", "b", "b">> }
SizeFonts == {DefaultFont, TrueTypeFont("C:/Windows/Fonts/arial.ttf", 24)}
SizeSpacings == {0, 4, 10}

InitSize ==
    /\ NoOverlayCall
    /\ call \in {[fn |-> "_calculate_text_size", lines |-> ls, font |-> f,
                  line_spacing |-> sp] :
                    ls \in UNION {[1..n -> SizeLines] : n \in 0..MaxLines},
                    f \in SizeFonts, sp \in SizeSpacings}
    /\ result = Pending

Call_calculate_text_size ==
    /\ call.fn = "_calculate_text_size"
    /\ result = Pending
    /\ result' = Returned(_calculate_text_size(call.lines, call.font, call.line_spacing))
    /\ UNCHANGED call
    /\ OverlayUnchanged

NextSize == Call_calculate_text_size

SpecSize == InitSize /\ [][NextSize]_vars

PositionSizes == { <<400, 300>>, <<200, 100>>, <<200, 121>> }
PositionBlockWidths == {0, 100, 101, 500}
PositionBlockHeights == {20, 21, 400}
PositionMargins == {0, 10, 100, -40, 350}
PositionKeywords == {"center", "top", "bottom", "left", "right", "diagonal"}

InitPosition ==
    /\ NoOverlayCall
    /\ call \in {[fn |-> "_calculate_position", img_width |-> wh[1], img_height |-> wh[2],
                  text_width |-> bw, text_height |-> bh, position |-> pos, margin |-> mg] :
                    wh \in PositionSizes, bw \in PositionBlockWidths,
                    bh \in PositionBlockHeights, pos \in PositionKeywords,
                    mg \in PositionMargins}
    /\ result = Pending

Call_calculate_position ==
    /\ call.fn = "_calculate_position"
    /\ result = Pending
    /\ result' = Returned(_calculate_position(call.img_width, call.img_height,
                                              call.text_width, call.text_height,
                                              call.position, call.margin))
    /\ UNCHANGED call
    /\ OverlayUnchanged

NextPosition == Call_calculate_position

SpecPosition == InitPosition /\ [][NextPosition]_vars

\* the call ended with an exception
Raised == [returned |-> FALSE, raised |-> TRUE]

DrawLines ==
    { <<>>,
      << <<"a", "a", "a">> >>,
      << <<"a", "a", "a", "a", "a">>, <<"a", "a", "a">> >>,
      << <<"a", "a", "a">>, <<>>, <<"a", "a", "a", "a", "a">> >>,
      << <<"a">>, <<>>, <<>>, <<"a", " ", "b">> >> }
DrawFonts ==
    { DefaultFont,
      TrueTypeFont("C:/Windows/Fonts/arial.ttf", 40),
      TrueTypeFont("C:/Windows/Fonts/arial.ttf", 5) }
DrawOrigins == { <<0, 0>>, <<50, 30>> }
DrawSpacings == {0, 10, -3}
DrawAlignments == {"left", "center", "right", "justify"}
DrawColors == { <<255, 255, 255>>, <<255, 255>> }

InitDraw ==
    /\ NoOverlayCall
    /\ call \in {[fn |-> "_draw_text", image |-> NewImage(400, 300, "RGB"), lines |-> ls,
                  x |-> xy[1], y |-> xy[2], font |-> f, color |-> c,
                  line_spacing |-> sp, alignment |-> al] :
                    ls \in DrawLines, xy \in DrawOrigins, f \in DrawFonts,
                    c \in DrawColors, sp \in DrawSpacings, al \in DrawAlignments}
    /\ result = Pending

\* lines 269-293: the image after the call, or the exception of line 292
Call_draw_text ==
    /\ call.fn = "_draw_text"
    /\ result = Pending
    /\ result' = IF DrawRaises(call.lines, call.color)
                 THEN Raised
                 ELSE Returned(_draw_text(call.image, call.lines, call.x, call.y, call.font,
                                          call.color, call.line_spacing, call.alignment))
    /\ UNCHANGED call
    /\ OverlayUnchanged

NextDraw == Call_draw_text

SpecDraw == InitDraw /\ [][NextDraw]_vars

\* images of one colour: Image.new(mode, (4, 3), content)
PlateImages ==
    { [mode |-> "RGB", content |-> <<200, 100, 0>>],
      [mode |-> "RGBA", content |-> <<200, 100, 0, 255>>],
      [mode |-> "RGBA", content |-> <<200, 100, 0, 128>>],
      [mode |-> "RGBA", content |-> <<200, 100, 0, 0>>] }
PlateOrigins == { <<0, 0>>, <<1, 1>> }
PlateBlockSizes == { <<1, 1>>, <<2, 1>> }
PlatePaddings == {0, 1, -1}
PlateColors == { <<0, 0, 0>>, <<10, 20, 30>>, <<0, 0, 0, 0>> }
PlateOpacities == {3, 7, 10, 50}

\* the pixel coordinates of an image
Coords(img) == (0..(img.width - 1)) \X (0..(img.height - 1))

InitPlate ==
    /\ NoOverlayCall
    /\ call \in {[fn |-> "_add_text_background", image |-> NewImage(4, 3, im.mode),
                  content |-> im.content, x |-> xy[1], y |-> xy[2],
                  width |-> wh[1], height |-> wh[2], color |-> c, opacity |-> op,
                  padding |-> pad] :
                    im \in PlateImages, xy \in PlateOrigins, wh \in PlateBlockSizes,
                    c \in PlateColors, op \in PlateOpacities, pad \in PlatePaddings}
    /\ result = Pending

\* lines 247-267: the image and its pixels after the call, or an exception
Call_add_text_background ==
    /\ call.fn = "_add_text_background"
    /\ result = Pending
    /\ \E raises \in BOOLEAN :
         /\ raises => \/ BackgroundMustRaise(call.color, call.opacity)
                       \/ BackgroundMayRaise(PlateBox(call.image, call.x, call.y,
                                                      call.width, call.height, call.padding))
         /\ ~raises => ~BackgroundMustRaise(call.color, call.opacity)
         /\ result' =
              IF raises THEN Raised
              ELSE LET after == _add_text_background(call.image, call.x, call.y, call.width,
                                                     call.height, call.color, call.opacity,
                                                     call.padding)
                       plate == after.px[Len(after.px)]
                   IN  Returned([image |-> after,
                                 data |-> [xy \in Coords(call.image) |->
                                             PlatePixel(plate, call.image.mode, xy,
                                                        call.content)]])
    /\ UNCHANGED call
    /\ OverlayUnchanged

NextPlate == Call_add_text_background

SpecPlate == InitPlate /\ [][NextPlate]_vars

\* font files that may be installed: two candidates of "serif" (the first
\* also on the list of __init__), a candidate of "arial" that heads the list
\* of __init__, and a file found on that list only
FontFiles ==
    { "C:/Windows/Fonts/times.ttf",
      "/usr/share/fonts/truetype/DejaVuSerif.ttf",
      "C:/Windows/Fonts/arial.ttf",
      "/usr/share/fonts/truetype/dejavu/DejaVuSans.ttf" }
FontSizes == {24, 0}
FontStyleValues == {"serif", "Serif", "SERIF", "arial", "fancy", None}

\* a TextOverlay built (lines 19-21) on a system with some font files, some
\* of which do not load, and one call of _get_font
InitFont ==
    /\ fs \in SUBSET FontFiles
    /\ unloadable \in SUBSET fs
    /\ default_fonts = _get_default_fonts(fs)
    /\ heap = <<>> /\ pre = None /\ args = None /\ loc = None
    /\ pc = "idle" /\ ret = 0
    /\ other = NoOther /\ session_state = NoSession
    /\ call \in {[fn |-> "_get_font", size |-> sz, style |-> st] :
                    sz \in FontSizes, st \in FontStyleValues}
    /\ result = Pending

Call_get_font ==
    /\ call.fn = "_get_font"
    /\ result = Pending
    /\ result' = Returned(_get_font(call.size, call.style, default_fonts, fs, unloadable))
    /\ UNCHANGED call
    /\ OverlayUnchanged

NextFont == Call_get_font

SpecFont == InitFont /\ [][NextFont]_vars

-----------------------------------------------------------------------------
(* add_text_overlay and add_poem_to_image, one action per pipeline step.    *)
(* background_opacity and max_width_ratio are held in tenths.  An argument  *)
(* passed as None is named in the field untyped, and its value is not read. *)
(* Object identity 0 is no object.                                          *)

\* lines 51-60: the defaults of add_text_overlay
DefaultStyle ==
    [ font_size |-> 24, font_color |-> <<255, 255, 255>>, position |-> "center",
      background_opacity |-> 7, background_color |-> <<0, 0, 0>>, margin |-> 50,
      line_spacing |-> 10, font_style |-> "arial", text_alignment |-> "center",
      max_width_ratio |-> 8, untyped |-> {} ]

\* style configurations of the right types, in and out of range
TypedStyles ==
    { [DefaultStyle EXCEPT !.font_size = sz, !.font_color = fc, !.position = pos,
                           !.background_opacity = op, !.background_color = bc,
                           !.margin = mg, !.font_style = st, !.text_alignment = al] :
        sz \in {24, -5}, fc \in {<<255, 255, 255>>, <<255, 255>>},
        pos \in {"center", "bottom", "diagonal"}, op \in {0, 7, 50},
        bc \in {<<0, 0, 0>>, <<0, 0, 0, 0>>}, mg \in {50, -40},
        st \in {"serif", "fancy"}, al \in {"center", "justify"} }

\* style configurations with a value of the wrong type
UntypedStyles ==
    { [st EXCEPT !.untyped = {f}] :
        st \in { [DefaultStyle EXCEPT !.position = pos, !.background_opacity = op] :
                    pos \in {"center", "top"}, op \in {0, 7} },
        f \in {"margin", "line_spacing", "max_width_ratio"} }

\* font requests: size zero, a style keyword in capitals, no style
FontStyles ==
    { [DefaultStyle EXCEPT !.font_size = sz, !.font_style = st] :
        sz \in {0, 24}, st \in {"Serif", None} }

StyleConfigs == TypedStyles \cup UntypedStyles \cup FontStyles

\* lines 296-306, 326-336: add_poem_to_image passes no margin, line_spacing
\* or max_width_ratio
PoemStyles ==
    { st \in StyleConfigs : /\ st.margin = DefaultStyle.margin
                            /\ st.line_spacing = DefaultStyle.line_spacing
                            /\ st.max_width_ratio = DefaultStyle.max_width_ratio }

OverlayTexts ==
    { <<"a">>,
      <<"a", " ", "b", "\n", "\n", "b">>,
      LongWord \o <<" ", "a">> }

Environments ==
    { [fs |-> {}, bad |-> {}],
      [fs |-> {"C:/Windows/Fonts/times.ttf"}, bad |-> {}],
      [fs |-> {"C:/Windows/Fonts/times.ttf",
               "/usr/share/fonts/truetype/dejavu/DejaVuSans.ttf"},
       bad |-> {"C:/Windows/Fonts/times.ttf"}] }

InputImages == {NewImage(200, 100, mode) : mode \in {"RGB", "RGBA"}}

IsNone(f) == f \in args.untyped

\* the locals before they are assigned; exc names the step that raised
NoLocals ==
    [ result_image |-> 0, font |-> NoFont, max_width |-> 0, wrapped_text |-> <<>>,
      text_width |-> 0, text_height |-> 0, text_x |-> 0, text_y |-> 0,
      exc |-> None ]

Init ==
    /\ \E env \in Environments : fs = env.fs /\ unloadable = env.bad
    /\ \E img \in InputImages : heap = <<img>>
    /\ pre = heap[1]
    /\ \E entry \in {"add_text_overlay", "add_poem_to_image"} :
         /\ args \in { st @@ [entry |-> entry, image |-> 1, text |-> t] :
                         st \in IF entry = "add_poem_to_image" THEN PoemStyles
                                                               ELSE StyleConfigs,
                         t \in OverlayTexts }
         /\ pc = IF entry = "add_poem_to_image" THEN "poem_call" ELSE "overlay_call"
         /\ default_fonts = IF entry = "add_poem_to_image" THEN <<>>
                            ELSE _get_default_fonts(fs)
    /\ loc = NoLocals
    /\ ret = 0
    /\ call = NoCall
    /\ result = Pending
    /\ other = NoOther
    /\ session_state = NoSession

Env == <<fs, unloadable>>
Harness == <<call, result, other, session_state>>

OnException_Propagate == "raised"

\* lines 116-118: where control goes when a step inside the try raises
OnException == "except"

ExceptReturn_Working(image, result_image) == result_image

\* line 118: what the handler returns
ExceptReturn(image, result_image) == image

WorkingImage_Original(image, result_image) == image

\* lines 104 and 110: the image the compositor and the renderer write to
WorkingImage(image, result_image) == result_image

\* the anchors whose formula reads the margin
UsesMargin(position) == position \in {"top", "bottom", "left", "right"}

HasBackground_Always(background_opacity) == background_opacity >= 0

\* line 102: if background_opacity > 0
HasBackground(background_opacity) == background_opacity > 0

\* lines 82-118 as one function of the input image and the arguments a: the
\* step that raised (None if none did) and the image returned, the input
\* image when a step raised.  strict: the library rejects an inverted box.
add_text_overlay(image, a, dfonts, exists, bad, strict) ==
    LET failed(stage) == [exc |-> stage, image |-> image]
        font == _get_font(a.font_size, a.font_style, dfonts, exists, bad)
        max_width == (image.width * a.max_width_ratio) \div 10
        wrapped_text == _wrap_text(a.text, font, max_width)
        size == _calculate_text_size(wrapped_text, font, a.line_spacing)
        xy == _calculate_position(image.width, image.height, size[1], size[2],
                                  a.position, a.margin)
        box == PlateBox(image, xy[1], xy[2], size[1], size[2], a.margin \div 2)
        plated == IF HasBackground(a.background_opacity)
                  THEN _add_text_background(image, xy[1], xy[2], size[1], size[2],
                                            a.background_color, a.background_opacity,
                                            a.margin \div 2)
                  ELSE image
    IN  IF "max_width_ratio" \in a.untyped THEN failed("wrap")
        ELSE IF "line_spacing" \in a.untyped THEN failed("size")
        ELSE IF "margin" \in a.untyped /\ UsesMargin(a.position) THEN failed("position")
        ELSE IF /\ HasBackground(a.background_opacity)
                /\ \/ "margin" \in a.untyped
                   \/ BackgroundMustRaise(a.background_color, a.background_opacity)
                   \/ strict /\ BackgroundMayRaise(box)
             THEN failed("background")
        ELSE IF DrawRaises(wrapped_text, a.font_color) THEN failed("draw")
        ELSE [exc |-> None,
              image |-> _draw_text(plated, wrapped_text, xy[1], xy[2], font, a.font_color,
                                   a.line_spacing, a.text_alignment)]

\* lines 324-336: add_poem_to_image builds a TextOverlay and calls it
add_poem_to_image(image, a, exists, bad, strict) ==
    add_text_overlay(image, a, _get_default_fonts(exists), exists, bad, strict)

NextStep_DrawFirst(step) ==
    CASE step = "overlay_call" -> "get_font"
      [] step = "get_font"     -> "wrap"
      [] step = "wrap"         -> "size"
      [] step = "size"         -> "position"
      [] step = "position"     -> "draw"
      [] step = "draw"         -> "background"
      [] step = "background"   -> "return"
      [] step = "return"       -> "done"

\* lines 84-114: the statement that follows a statement of the try block
NextStep(step) ==
    CASE step = "overlay_call" -> "get_font"
      [] step = "get_font"     -> "wrap"
      [] step = "wrap"         -> "size"
      [] step = "size"         -> "position"
      [] step = "position"     -> "background"
      [] step = "background"   -> "draw"
      [] step = "draw"         -> "return"
      [] step = "return"       -> "done"

Raise(stage) ==
    /\ pc' = OnException
    /\ loc' = [loc EXCEPT !.exc = stage]
    /\ UNCHANGED <<Env, default_fonts, heap, pre, args, ret, Harness>>

\* lines 324-326: add_poem_to_image builds a TextOverlay (lines 19-21)
PoemCall ==
    /\ pc = "poem_call"
    /\ default_fonts' = _get_default_fonts(fs)
    /\ pc' = "overlay_call"
    /\ UNCHANGED <<Env, heap, pre, args, loc, ret, Harness>>

\* line 84
Copy ==
    /\ pc = "overlay_call"
    /\ LET c == ImageCopy(heap, args.image)
       IN  /\ heap' = c.heap
           /\ loc' = [loc EXCEPT !.result_image = c.id]
    /\ pc' = NextStep("overlay_call")
    /\ UNCHANGED <<Env, default_fonts, pre, args, ret, Harness>>

\* line 87
GetFont ==
    /\ pc = "get_font"
    /\ loc' = [loc EXCEPT !.font =
                 _get_font(args.font_size, args.font_style, default_fonts, fs, unloadable)]
    /\ pc' = NextStep("get_font")
    /\ UNCHANGED <<Env, default_fonts, heap, pre, args, ret, Harness>>

\* lines 90-91; int() of a non-negative product truncates
CanWrap == pc = "wrap" /\ ~IsNone("max_width_ratio")

Wrap ==
    /\ CanWrap
    /\ LET max_width == (heap[args.image].width * args.max_width_ratio) \div 10
       IN  loc' = [loc EXCEPT !.max_width = max_width,
                              !.wrapped_text = _wrap_text(args.text, loc.font, max_width)]
    /\ pc' = NextStep("wrap")
    /\ UNCHANGED <<Env, default_fonts, heap, pre, args, ret, Harness>>

\* line 90: image.width * None
WrapMustRaise == pc = "wrap" /\ IsNone("max_width_ratio")

WrapRaises ==
    /\ WrapMustRaise
    /\ Raise("wrap")

\* line 94
CanSize == pc = "size" /\ ~IsNone("line_spacing")

Size ==
    /\ CanSize
    /\ LET sz == _calculate_text_size(loc.wrapped_text, loc.font, args.line_spacing)
       IN  loc' = [loc EXCEPT !.text_width = sz[1], !.text_height = sz[2]]
    /\ pc' = NextStep("size")
    /\ UNCHANGED <<Env, default_fonts, heap, pre, args, ret, Harness>>

\* line 217: (len(lines) - 1) * None
SizeMustRaise == pc = "size" /\ IsNone("line_spacing")

SizeRaises ==
    /\ SizeMustRaise
    /\ Raise("size")

\* lines 97-99
CanPosition == pc = "position" /\ ~(IsNone("margin") /\ UsesMargin(args.position))

Position ==
    /\ CanPosition
    /\ LET xy == _calculate_position(heap[args.image].width, heap[args.image].height,
                                     loc.text_width, loc.text_height,
                                     args.position, args.margin)
       IN  loc' = [loc EXCEPT !.text_x = xy[1], !.text_y = xy[2]]
    /\ pc' = NextStep("position")
    /\ UNCHANGED <<Env, default_fonts, heap, pre, args, ret, Harness>>

\* lines 231-245: arithmetic and max() on None
PositionMustRaise == pc = "position" /\ IsNone("margin") /\ UsesMargin(args.position)

PositionRaises ==
    /\ PositionMustRaise
    /\ Raise("position")

\* line 102 false: no plate
CanSkipBackground == pc = "background" /\ ~HasBackground(args.background_opacity)

BackgroundSkip ==
    /\ CanSkipBackground
    /\ pc' = NextStep("background")
    /\ UNCHANGED <<Env, default_fonts, heap, pre, args, loc, ret, Harness>>

\* lines 102-106 when _add_text_background returns
CanBackground ==
    /\ pc = "background"
    /\ HasBackground(args.background_opacity)
    /\ ~IsNone("margin")
    /\ ~BackgroundMustRaise(args.background_color, args.background_opacity)

Background ==
    /\ CanBackground
    /\ LET id == WorkingImage(args.image, loc.result_image)
       IN  heap' = [heap EXCEPT ![id] =
                      _add_text_background(heap[id], loc.text_x, loc.text_y,
                                           loc.text_width, loc.text_height,
                                           args.background_color, args.background_opacity,
                                           args.margin \div 2)]
    /\ pc' = NextStep("background")
    /\ UNCHANGED <<Env, default_fonts, pre, args, loc, ret, Harness>>

\* lines 102-106 when margin // 2, the colour or the box raises
BackgroundCanRaise ==
    /\ pc = "background"
    /\ HasBackground(args.background_opacity)
    /\ \/ IsNone("margin")
       \/ /\ ~IsNone("margin")
          /\ \/ BackgroundMustRaise(args.background_color, args.background_opacity)
             \/ BackgroundMayRaise(
                    PlateBox(heap[WorkingImage(args.image, loc.result_image)],
                             loc.text_x, loc.text_y, loc.text_width, loc.text_height,
                             args.margin \div 2))

BackgroundRaises ==
    /\ BackgroundCanRaise
    /\ Raise("background")

\* lines 109-112 when _draw_text returns
CanDraw == pc = "draw" /\ ~DrawRaises(loc.wrapped_text, args.font_color)

Draw ==
    /\ CanDraw
    /\ LET id == WorkingImage(args.image, loc.result_image)
       IN  heap' = [heap EXCEPT ![id] =
                      _draw_text(heap[id], loc.wrapped_text, loc.text_x, loc.text_y,
                                 loc.font, args.font_color, args.line_spacing,
                                 args.text_alignment)]
    /\ pc' = NextStep("draw")
    /\ UNCHANGED <<Env, default_fonts, pre, args, loc, ret, Harness>>

\* line 292 raising on the first line drawn
DrawMustRaise == pc = "draw" /\ DrawRaises(loc.wrapped_text, args.font_color)

DrawFails ==
    /\ DrawMustRaise
    /\ Raise("draw")

\* line 114
Return ==
    /\ pc = "return"
    /\ ret' = loc.result_image
    /\ pc' = NextStep("return")
    /\ UNCHANGED <<Env, default_fonts, heap, pre, args, loc, Harness>>

\* lines 116-118
Except ==
    /\ pc = "except"
    /\ ret' = ExceptReturn(args.image, loc.result_image)
    /\ pc' = "done"
    /\ UNCHANGED <<Env, default_fonts, heap, pre, args, loc, Harness>>

Next ==
    \/ PoemCall \/ Copy \/ GetFont
    \/ Wrap \/ WrapRaises
    \/ Size \/ SizeRaises
    \/ Position \/ PositionRaises
    \/ BackgroundSkip \/ Background \/ BackgroundRaises
    \/ Draw \/ DrawFails
    \/ Return \/ Except

Spec == Init /\ [][Next]_vars

-----------------------------------------------------------------------------
(* Two add_text_overlay calls on one TextOverlay instance, their steps      *)
(* interleaved: one call runs, the other is held in the variable other.     *)

ConcurrentInputs == << NewImage(200, 100, "RGB"), NewImage(200, 100, "RGBA") >>

\* style configurations that take each path through the pipeline
ConcurrentStyles ==
    { DefaultStyle,
      [DefaultStyle EXCEPT !.background_opacity = 0],
      [DefaultStyle EXCEPT !.position = "bottom", !.text_alignment = "right"],
      [DefaultStyle EXCEPT !.font_color = <<255, 255>>],
      [DefaultStyle EXCEPT !.background_color = <<0, 0, 0, 0>>],
      [DefaultStyle EXCEPT !.untyped = {"max_width_ratio"}],
      [DefaultStyle EXCEPT !.untyped = {"line_spacing"}],
      [DefaultStyle EXCEPT !.untyped = {"margin"}, !.position = "top"] }

ConcurrentTexts == { <<"a">>, <<"a", " ", "b", "\n", "\n", "b">> }

ConcurrentArgs ==
    { st @@ [entry |-> "add_text_overlay", image |-> id, text |-> t] :
        st \in ConcurrentStyles, id \in 1..Len(ConcurrentInputs), t \in ConcurrentTexts }

\* the running call, as the record kept for a call that is not running
Running == [args |-> args, loc |-> loc, pc |-> pc, ret |-> ret]

InitConcurrent ==
    /\ fs = {"C:/Windows/Fonts/times.ttf"} /\ unloadable = {}
    /\ default_fonts = _get_default_fonts(fs)
    /\ heap = ConcurrentInputs
    /\ pre = heap[1]
    /\ args \in ConcurrentArgs
    /\ loc = NoLocals /\ pc = "overlay_call" /\ ret = 0
    /\ \E a \in ConcurrentArgs :
         other = [args |-> a, loc |-> NoLocals, pc |-> "overlay_call", ret |-> 0]
    /\ call = NoCall /\ result = Pending
    /\ session_state = NoSession

\* the scheduler runs the other call
Switch ==
    /\ other # NoOther
    /\ args' = other.args /\ loc' = other.loc /\ pc' = other.pc /\ ret' = other.ret
    /\ other' = Running
    /\ UNCHANGED <<Env, default_fonts, heap, pre, call, result, session_state>>

NextConcurrent ==
    \/ Copy \/ GetFont
    \/ Wrap \/ WrapRaises
    \/ Size \/ SizeRaises
    \/ Position \/ PositionRaises
    \/ BackgroundSkip \/ Background \/ BackgroundRaises
    \/ Draw \/ DrawFails
    \/ Return \/ Except
    \/ Switch

SpecConcurrent == InitConcurrent /\ [][NextConcurrent]_vars

-----------------------------------------------------------------------------
(* The overlay applied to an image, and applied again to what it returned   *)

TwiceStyles ==
    { [DefaultStyle EXCEPT !.background_opacity = op, !.font_color = fc,
                           !.position = pos, !.margin = mg] :
        op \in {0, 3, 7, 10}, fc \in {<<255, 255, 255>>, <<255, 255>>},
        pos \in {"center", "bottom"}, mg \in {50, -40} }

\* images of one colour: Image.new('RGB', (200, 100), content)
TwiceContents == { <<200, 100, 0>>, <<0, 0, 0>> }

\* strict: the installed library rejects an inverted rectangle
InitTwice ==
    /\ fs \in { {}, {"C:/Windows/Fonts/times.ttf"} } /\ unloadable = {}
    /\ default_fonts = _get_default_fonts(fs)
    /\ heap = <<>> /\ pre = None /\ args = None /\ loc = None
    /\ pc = "idle" /\ ret = 0
    /\ other = NoOther /\ session_state = NoSession
    /\ call \in {[fn |-> "add_text_overlay", image |-> NewImage(200, 100, "RGB"),
                  content |-> c, a |-> st @@ [text |-> t], strict |-> strict] :
                    c \in TwiceContents, st \in TwiceStyles, t \in ConcurrentTexts,
                    strict \in BOOLEAN}
    /\ result = Pending

\* once = overlay.add_text_overlay(image, text, ...)
Call_add_text_overlay ==
    /\ call.fn = "add_text_overlay"
    /\ result = Pending
    /\ result' = Returned([once |-> add_text_overlay(call.image, call.a, default_fonts,
                                                     fs, unloadable, call.strict)])
    /\ UNCHANGED call
    /\ OverlayUnchanged

\* twice = overlay.add_text_overlay(once, text, ...)
Call_add_text_overlay_again ==
    /\ call.fn = "add_text_overlay"
    /\ result.returned
    /\ DOMAIN result.value = {"once"}
    /\ result' = Returned([once |-> result.value.once,
                           twice |-> add_text_overlay(result.value.once.image, call.a,
                                                      default_fonts, fs, unloadable,
                                                      call.strict)])
    /\ UNCHANGED call
    /\ OverlayUnchanged

NextTwice == Call_add_text_overlay \/ Call_add_text_overlay_again

SpecTwice == InitTwice /\ [][NextTwice]_vars

-----------------------------------------------------------------------------
(* The editing controls of the application (src/app.py): the handlers of    *)
(* the buttons Apply Changes and Reset to Original.  session_state.images   *)
(* and session_state.edited_images hold object identities of the heap.      *)
(* Factors are held in tenths.                                              *)

\* the objects the heap may hold
MaxObjects == 5

\* generate_poem_image returned two images
GeneratedImages == <<NewImage(200, 100, "RGB"), NewImage(200, 100, "RGB")>>

\* line 335: the poem the images were generated for, of three lines, the
\* second one blank
GeneratedPoem == <<"a", " ", "b", "\n", "\n", "b">>

\* the values of the widgets when a button is pressed; the overlay widgets
\* exist only when the box "Add poem text to image" is ticked
AppSettings ==
    { [brightness |-> b, contrast |-> 10, blur |-> 0, enable_text |-> FALSE,
       font_size |-> 24, font_color |-> <<255, 255, 255>>, position |-> "center",
       background_opacity |-> 7, font_style |-> "serif", text_alignment |-> "center"] :
        b \in {10, 15} }
    \cup
    { [brightness |-> 10, contrast |-> w[1], blur |-> w[2], enable_text |-> TRUE,
       font_size |-> 24, font_color |-> <<255, 255, 255>>, position |-> w[3],
       background_opacity |-> w[4], font_style |-> "serif", text_alignment |-> "center"] :
        w \in {<<10, 0, "center", 7>>, <<5, 2, "top", 0>>} }

\* image_editor.py: each adjustment returns a new image made from its input
basic_edit_image(image, brightness, contrast, blur) ==
    LET brightened == IF brightness # 10
                      THEN [image EXCEPT !.px = Append(@, [op |-> "brightness", factor |-> brightness])]
                      ELSE image
        contrasted == IF contrast # 10
                      THEN [brightened EXCEPT !.px = Append(@, [op |-> "contrast", factor |-> contrast])]
                      ELSE brightened
    IN  IF blur > 0
        THEN [contrasted EXCEPT !.px = Append(@, [op |-> "blur", factor |-> blur])]
        ELSE contrasted

original_image_Edited(image_index) == session_state.edited_images[image_index]

\* line 551
original_image(image_index) == session_state.images[image_index]

\* lines 669-685: the pixels of edited_image, from the pixels of the copy
edited_image(copy, s, exists, bad, strict) ==
    LET edited == IF s.brightness # 10 \/ s.contrast # 10 \/ s.blur # 0
                  THEN basic_edit_image(copy, s.brightness, s.contrast, s.blur)
                  ELSE copy
    IN  IF s.enable_text /\ session_state.current_poem # <<>>
        THEN add_poem_to_image(edited,
                 [DefaultStyle EXCEPT !.font_size = s.font_size, !.font_color = s.font_color,
                                      !.position = s.position,
                                      !.background_opacity = s.background_opacity,
                                      !.font_style = s.font_style,
                                      !.text_alignment = s.text_alignment]
                    @@ [text |-> session_state.current_poem],
                 exists, bad, strict).image
        ELSE edited

\* lines 389-391: the session after Analyze & Generate; edited_images is a
\* copy of the list, holding the same objects
InitApp ==
    /\ fs \in { {}, {"C:/Windows/Fonts/times.ttf"} } /\ unloadable = {}
    /\ default_fonts = _get_default_fonts(fs)
    /\ heap = GeneratedImages
    /\ pre = None /\ args = None /\ loc = None
    /\ pc = "idle" /\ ret = 0
    /\ other = NoOther
    /\ call = [fn |-> "add_editing_controls"] /\ result = Pending
    /\ session_state = [images |-> <<1, 2>>, edited_images |-> <<1, 2>>,
                        current_poem |-> GeneratedPoem, reset_counter |-> <<0, 0>>]

AppUnchanged == UNCHANGED <<Env, default_fonts, pre, args, loc, pc, ret, other, call, result>>

\* lines 664-692, Apply Changes: the object stored is the copy of line 667 or
\* an image made from it, with the pixels of edited_image
ApplyChanges ==
    \E image_index \in 1..Len(session_state.images), s \in AppSettings, strict \in BOOLEAN :
        /\ Len(heap) < MaxObjects
        /\ LET copy == ImageCopy(heap, original_image(image_index))
           IN  /\ heap' = [copy.heap EXCEPT
                              ![copy.id] = edited_image(copy.heap[copy.id], s, fs, unloadable, strict)]
               /\ session_state' = [session_state EXCEPT !.edited_images[image_index] = copy.id]
        /\ AppUnchanged

\* lines 694-703, Reset to Original
ResetToOriginal ==
    \E image_index \in 1..Len(session_state.images) :
        /\ Len(heap) < MaxObjects
        /\ LET copy == ImageCopy(heap, original_image(image_index))
           IN  /\ heap' = copy.heap
               /\ session_state' = [session_state EXCEPT
                                       !.edited_images[image_index] = copy.id,
                                       !.reset_counter[image_index] = @ + 1]
        /\ AppUnchanged

NextApp == ApplyChanges \/ ResetToOriginal

SpecApp == InitApp /\ [][NextApp]_vars

\* some step of the call can be taken: the steps without a condition, or a
\* step whose condition holds
CanStep ==
    \/ pc \in {"poem_call", "overlay_call", "get_font", "return", "except"}
    \/ CanWrap \/ WrapMustRaise
    \/ CanSize \/ SizeMustRaise
    \/ CanPosition \/ PositionMustRaise
    \/ CanSkipBackground \/ CanBackground \/ BackgroundCanRaise
    \/ CanDraw \/ DrawMustRaise

-----------------------------------------------------------------------------
(* Properties of add_text_overlay / add_poem_to_image, under Spec *)

Done == pc = "done"
Failed == loc.exc # None

\* C1: the pixel data of the caller's input image is, at every point of the
\* call and after it returns on either path, what it was before the call.
C1_NonMutation == heap[args.image].px = pre.px /\ heap[args.image] = pre

\* the call returned a working copy that carries the plate and the text
C1_Witness ==
    /\ Done /\ ~Failed /\ ret # args.image
    /\ \E i \in 1..Len(heap[ret].px) : heap[ret].px[i].op = "plate"
    /\ \E i \in 1..Len(heap[ret].px) : heap[ret].px[i].op = "text"

\* C2: the returned image has the width and the height of the input image,
\* on the success path and on the error path.
C2_DimensionInvariance ==
    Done => heap[ret].width = pre.width /\ heap[ret].height = pre.height

\* a successful call whose text block is wider than the image
C2_Witness == Done /\ ~Failed /\ loc.text_width > pre.width

\* C3: whatever the style configuration, no exception leaves the call: a
\* call that has not returned can take a step, and a call that has returned
\* returned an image.
C3_NeverThrows ==
    /\ pc # "raised"
    /\ Done => ret \in 1..Len(heap)
    /\ ~Done => CanStep

\* a call with opacity 5.0, a negative font size, a negative margin and
\* unknown position and alignment keywords has returned
C3_Witness ==
    /\ Done
    /\ args.background_opacity = 50 /\ args.font_size < 0 /\ args.margin < 0
    /\ args.position = "diagonal" /\ args.text_alignment = "justify"

\* the working copy shows the plate (when one is asked for) under every
\* display line, in order
FullyRendered(px) ==
    LET n == Len(loc.wrapped_text)
        plate == IF args.background_opacity > 0 THEN 1 ELSE 0
    IN  /\ Len(px) = plate + n
        /\ plate = 1 => px[1].op = "plate"
        /\ \A i \in 1..n : px[plate + i].op = "text" /\ px[plate + i].text = loc.wrapped_text[i]

\* C4: when a pipeline step raises, the call returns the input image itself,
\* unchanged; what a call returns is either unchanged or fully rendered.
C4_AllOrNothing ==
    Done =>
        /\ Failed => ret = args.image /\ heap[ret] = pre
        /\ heap[ret].px = pre.px \/ FullyRendered(heap[ret].px)

\* text drawing raised after the plate was composited on the working copy
C4_Witness ==
    /\ Done /\ loc.exc = "draw" /\ ret = args.image
    /\ heap[loc.result_image].px # <<>>
    /\ heap[loc.result_image].px[1].op = "plate"

\* C5 as stated: on every call the returned image is an object other than
\* the input image.
C5_AlwaysNewObject == Done => ret # args.image

\* C5 amended: the returned image is a new object exactly when no step
\* raised; when a step raised it is the input image object itself.
C5_NewObjectOnSuccess ==
    Done => /\ ~Failed => ret # args.image /\ ret = loc.result_image
            /\ Failed => ret = args.image

\* a successful call has returned its working copy
C5_Witness == Done /\ ~Failed /\ ret = loc.result_image /\ ret # args.image

Abs(v) == IF v >= 0 THEN v ELSE -v

\* the width of the block: the largest of the measured line widths, 0 for
\* no line
BlockWidth(c) ==
    CHOOSE w \in {0} \cup {_get_text_width(c.lines[i], c.font) : i \in 1..Len(c.lines)} :
        \A i \in 1..Len(c.lines) : _get_text_width(c.lines[i], c.font) <= w

\* the writes of kind op applied to the image
Writes(img, op) == {k \in 1..Len(img.px) : img.px[k].op = op}

\* C16: with background_opacity 0 the compositor step is not executed: no
\* image ever carries a plate, the working copy just before text drawing is
\* the input image pixel for pixel, and the only writes in the result are
\* the glyphs of the display lines.
C16_BackgroundSkip ==
    args.background_opacity = 0 =>
        /\ \A id \in 1..Len(heap) : Writes(heap[id], "plate") = {}
        /\ loc.exc # "background"
        /\ pc = "draw" => heap[loc.result_image] = pre
        /\ (Done /\ ~Failed) =>
              /\ Writes(heap[ret], "text") = 1..Len(heap[ret].px)
              /\ Len(heap[ret].px) = Len(loc.wrapped_text)

\* a call with opacity 0 has returned a working copy that carries text
C16_Witness ==
    /\ Done /\ ~Failed /\ args.background_opacity = 0
    /\ ret = loc.result_image /\ Writes(heap[ret], "text") # {}

\* C17: the plate is the text block inflated by p = margin // 2 on every
\* side and clamped to the image: x1 = max(0, origin_x - p),
\* y1 = max(0, origin_y - p), x2 = min(W, origin_x + block_width + p),
\* y2 = min(H, origin_y + block_height + p), and its corners satisfy
\* 0 <= x1 <= x2 <= W and 0 <= y1 <= y2 <= H.
C17_PlateGeometry ==
    \A id \in 1..Len(heap) : \A k \in Writes(heap[id], "plate") :
        LET box == heap[id].px[k].box
            p == args.margin \div 2
            W == heap[id].width
            H == heap[id].height
        IN  /\ box[1] = Max(0, loc.text_x - p)
            /\ box[2] = Max(0, loc.text_y - p)
            /\ box[3] = Min(W, loc.text_x + loc.text_width + p)
            /\ box[4] = Min(H, loc.text_y + loc.text_height + p)
            /\ 0 <= box[1] /\ box[1] <= box[3] /\ box[3] <= W
            /\ 0 <= box[2] /\ box[2] <= box[4] /\ box[4] <= H

\* the font has been resolved
FontResolved == pc \notin {"poem_call", "overlay_call", "get_font"}

\* some font file of the system loads at the requested size
SomeFontLoads == \E path \in fs : TrueTypeLoads(path, args.font_size, fs, unloadable)

\* a style configuration none of whose values makes a later step raise
WellFormedStyle ==
    /\ args.untyped = {} /\ args.margin >= 0
    /\ ValidInk(args.font_color) /\ Len(args.background_color) = 3

\* C20: for every font size (zero and negative included) and every style
\* value the resolver returns a font handle, the built-in font or a scalable
\* font that loaded, and never leaves by an exception; when no scalable font
\* loads it returns the built-in font, and the overlay call then still
\* succeeds and returns the rendered working copy.
C20_FontResolverNeverRaises ==
    /\ loc.exc \notin {"get_font", "font"}
    /\ FontResolved =>
          /\ loc.font.kind \in {"default", "truetype"}
          /\ loc.font.kind = "truetype" =>
                TrueTypeLoads(loc.font.path, loc.font.size, fs, unloadable)
          /\ ~SomeFontLoads => loc.font = DefaultFont
    /\ (Done /\ loc.font = DefaultFont /\ WellFormedStyle) =>
          /\ ~Failed /\ ret = loc.result_image /\ ret # args.image
          /\ FullyRendered(heap[ret].px)

\* font files are installed but none loads at size 0: the call has returned
\* the working copy rendered in the built-in font
C20_Witness ==
    /\ Done /\ ~Failed /\ fs # {} /\ args.font_size = 0 /\ ~SomeFontLoads
    /\ loc.font = DefaultFont
    /\ ret = loc.result_image /\ Writes(heap[ret], "text") # {}

\* the text has been drawn on the working copy
TextDrawn == pc \in {"return", "done"} /\ ~Failed

\* C25: sizing and rendering use one line height and one block width: for
\* the n >= 1 display lines, the bottom of the last drawn line,
\* origin_y + (n - 1) * (line_height + line_spacing) + line_height, is
\* origin_y + block_height, and the lines are aligned in the block width
\* that gave the origin and the plate.
C25_LayoutMatchesRendering ==
    TextDrawn =>
        LET img == heap[loc.result_image]
            n == Len(loc.wrapped_text)
            first == Len(img.px) - n
            line_height == ProbeLineHeight(loc.font)
        IN  /\ n >= 1 /\ first >= 0
            /\ img.px[first + n].xy[2] =
                    loc.text_y + (n - 1) * (line_height + args.line_spacing)
            /\ img.px[first + n].xy[2] + line_height = loc.text_y + loc.text_height
            /\ loc.text_width = BlockWidth([lines |-> loc.wrapped_text, font |-> loc.font])
            /\ args.text_alignment = "center" =>
                  \A i \in 1..n :
                      img.px[first + i].xy[1] =
                          loc.text_x + (loc.text_width
                                          - _get_text_width(loc.wrapped_text[i], loc.font)) \div 2
            /\ \A k \in Writes(img, "plate") :
                  img.px[k].box[3] = Min(img.width, loc.text_x + loc.text_width
                                                      + args.margin \div 2)

\* three lines of different widths have been drawn centred over a plate
C25_Witness ==
    /\ TextDrawn /\ Done /\ args.text_alignment = "center"
    /\ Len(loc.wrapped_text) >= 3
    /\ Writes(heap[ret], "plate") # {}
    /\ \E i \in 1..Len(loc.wrapped_text) :
         _get_text_width(loc.wrapped_text[i], loc.font) < loc.text_width
    /\ heap[ret].px[Len(heap[ret].px)].xy[2] + ProbeLineHeight(loc.font)
          = loc.text_y + loc.text_height

\* the steps that may come next after a step: the next one of the pipeline
\* or, where a step can raise, the handler
Following(step) ==
    CASE step = "poem_call"    -> {"overlay_call"}
      [] step = "overlay_call" -> {"get_font"}
      [] step = "get_font"     -> {"wrap"}
      [] step = "wrap"         -> {"size", "except"}
      [] step = "size"         -> {"position", "except"}
      [] step = "position"     -> {"background", "except"}
      [] step = "background"   -> {"draw", "except"}
      [] step = "draw"         -> {"return", "except"}
      [] step = "return"       -> {"done"}
      [] step = "except"       -> {"done"}
      [] OTHER                 -> {}

\* in every image every plate was written before every line of text
PlateBeneathText ==
    \A id \in 1..Len(heap) :
        \A k \in Writes(heap[id], "plate") : \A j \in Writes(heap[id], "text") : k < j

\* C26: the steps of a call occur in the order resolve font, wrap, compute
\* block size, compute origin, composite plate, draw text; the plate step
\* writes to the image exactly when background_opacity > 0, and the plate is
\* written before any line is drawn, so no glyph is under the plate.
C26_PipelineOrder ==
    [][ /\ pc' \in Following(pc)
        /\ (pc = "background" /\ pc' = "draw") =>
              /\ (heap' # heap) <=> (args.background_opacity > 0)
              /\ Writes(heap'[loc.result_image], "text") = {}
        /\ PlateBeneathText' ]_vars

\* a call has drawn its text over the plate it composited first
C26_Witness ==
    /\ pc = "return" /\ ~Failed /\ args.background_opacity > 0
    /\ Len(heap[loc.result_image].px) >= 2
    /\ heap[loc.result_image].px[1].op = "plate"
    /\ \A k \in 2..Len(heap[loc.result_image].px) : heap[loc.result_image].px[k].op = "text"

-----------------------------------------------------------------------------
(* Properties of two interleaved calls, under SpecConcurrent *)

\* what a call returns when it runs alone on its input image
Alone(c) ==
    add_text_overlay(ConcurrentInputs[c.args.image], c.args,
                     _get_default_fonts(fs), fs, unloadable, TRUE)

\* C23: with the steps of two calls on one instance interleaved in any
\* order, also on one input image, a call that has returned has returned
\* the image it returns alone (its own new working copy, or its input when
\* a step raised); the two working copies are different objects, and the
\* input images and the instance's default_fonts are never written.
C23_IndependentCalls ==
    /\ default_fonts = _get_default_fonts(fs)
    /\ \A id \in 1..Len(ConcurrentInputs) : heap[id] = ConcurrentInputs[id]
    /\ (loc.result_image # 0 /\ other.loc.result_image # 0) =>
          loc.result_image # other.loc.result_image
    /\ \A c \in {Running, other} :
          c.pc = "done" =>
              /\ heap[c.ret] = Alone(c).image
              /\ c.loc.exc = Alone(c).exc
              /\ c.loc.exc = None => c.ret = c.loc.result_image /\ c.ret > Len(ConcurrentInputs)
              /\ c.loc.exc # None => c.ret = c.args.image

\* on one input image: the other call made its copy first and has
\* composited its plate, and the running call has meanwhile run to its
\* return with a rendered copy of its own
C23_Witness ==
    /\ other # NoOther /\ other.pc = "draw" /\ Done /\ ~Failed
    /\ args.image = other.args.image
    /\ other.loc.result_image # 0 /\ other.loc.result_image < loc.result_image
    /\ heap[other.loc.result_image].px # <<>>
    /\ ret = loc.result_image /\ heap[ret] = Alone(Running).image
    /\ heap[ret].px # <<>>

-----------------------------------------------------------------------------
(* Properties of the overlay applied twice, under SpecTwice *)

AppliedTwice ==
    call.fn = "add_text_overlay" /\ result.returned /\ "twice" \in DOMAIN result.value
once == result.value.once
twice == result.value.twice

\* the plate of the first application covers at least one pixel of the image
PlateCoversPixel ==
    \E k \in Writes(once.image, "plate") :
        LET box == once.image.px[k].box
        IN  box[1] <= box[3] /\ box[2] <= box[4]
            /\ box[1] < once.image.width /\ box[2] < once.image.height

\* a pixel of the plate that no glyph covers
PlateCorner ==
    LET k == CHOOSE k \in Writes(once.image, "plate") : TRUE
    IN  <<once.image.px[k].box[1], once.image.px[k].box[2]>>

\* the two results have the same pixels: the glyph pixels are the same, so
\* they differ only if a pixel of the plate does
SamePixels ==
    \/ once.exc # None
    \/ ~PlateCoversPixel
    \/ PixelAfter(twice.image.px, "RGB", PlateCorner, call.content)
          = PixelAfter(once.image.px, "RGB", PlateCorner, call.content)

-----------------------------------------------------------------------------
(* Properties of _wrap_text, under SpecWrap *)

Wrapped == call.fn = "_wrap_text" /\ result.returned
lines_out == result.value

\* the non-space characters of a sequence of strings, in order
Letters(ss) == SelectSeq(Flatten(ss), NotSpace)

\* the words of a sequence of strings, in order
WordsOf(ss) == Flatten([i \in 1..Len(ss) |-> SplitWords(ss[i])])

\* C6: every display line of more than one word measures at most max width.
C6_WrapCorrectness ==
    Wrapped =>
        \A i \in 1..Len(lines_out) :
            Len(SplitWords(lines_out[i])) > 1 =>
                _get_text_width(lines_out[i], call.font) <= call.max_width

\* a paragraph short enough for the coarse pass was re-split by pixel width
\* into several lines, one of them of several words
C6_Witness ==
    /\ Wrapped
    /\ Len(call.text) <= WrapWidth /\ Len(SplitNewline(call.text)) = 1
    /\ Len(lines_out) > 1
    /\ \E i \in 1..Len(lines_out) : Len(SplitWords(lines_out[i])) > 1

\* C7: every word of the text wider than max width is a display line, whole.
C7_UnsplittableWord ==
    Wrapped =>
        LET words == WordsOf(SplitNewline(call.text))
        IN  \A k \in 1..Len(words) :
                _get_text_width(words[k], call.font) > call.max_width =>
                    \E i \in 1..Len(lines_out) : lines_out[i] = words[k]

\* C8: the empty display lines are as many as the blank paragraphs, the j-th
\* empty line stands where the j-th blank paragraph stood (the same
\* characters precede both), and "a\n\nb" gives "a", "", "b".
C8_BlankLinePreservation ==
    Wrapped =>
        LET paragraphs == SplitNewline(call.text)
            blank == Ascending({k \in 1..Len(paragraphs) : IsBlank(paragraphs[k])})
            empty == Ascending({i \in 1..Len(lines_out) : lines_out[i] = <<>>})
        IN  /\ Len(empty) = Len(blank)
            /\ \A j \in 1..Len(blank) :
                 Letters(SubSeq(lines_out, 1, empty[j] - 1))
                    = Letters(SubSeq(paragraphs, 1, blank[j] - 1))
            /\ call.text = <<"a", "\n", "\n", "b">> => lines_out = << <<"a">>, <<>>, <<"b">> >>

\* a text that starts and ends with a blank paragraph around a non-blank one
C8_Witness ==
    /\ Wrapped
    /\ LET paragraphs == SplitNewline(call.text)
       IN  /\ Len(paragraphs) = 3
           /\ IsBlank(paragraphs[1]) /\ ~IsBlank(paragraphs[2]) /\ IsBlank(paragraphs[3])
    /\ lines_out[1] = <<>> /\ lines_out[Len(lines_out)] = <<>>

\* C9: the display lines are the lines of the paragraphs in paragraph order,
\* and the words of the lines of a paragraph are the words of the paragraph.
C9_OrderAndContent ==
    Wrapped =>
        LET paragraphs == SplitNewline(call.text)
            lines(k) == WrapParagraph(paragraphs[k], call.font, call.max_width)
        IN  /\ lines_out = Flatten([k \in 1..Len(paragraphs) |-> lines(k)])
            /\ \A k \in 1..Len(paragraphs) : WordsOf(lines(k)) = SplitWords(paragraphs[k])

\* the coarse lines of the text, paragraph after paragraph, a blank
\* paragraph standing as one empty coarse line
CoarseLines(text) ==
    LET paragraphs == SplitNewline(text)
    IN  Flatten([k \in 1..Len(paragraphs) |->
                    IF IsBlank(paragraphs[k]) THEN << <<>> >> ELSE CoarseWrap(paragraphs[k])])

\* C27: a coarse line wider than max width is re-split word by word into
\* maximal lines: of two consecutive lines made from it, the earlier one
\* followed by a space and the first word of the later one measures more
\* than max width; the lines keep the words of the coarse line in order,
\* and the display lines are the lines so made, coarse line by coarse line.
C27_GreedyResplit ==
    Wrapped =>
        LET coarse == CoarseLines(call.text)
            made(k) == IF _get_text_width(coarse[k], call.font) <= call.max_width
                       THEN <<coarse[k]>>
                       ELSE RefineLine(coarse[k], call.font, call.max_width)
        IN  /\ lines_out = Flatten([k \in 1..Len(coarse) |-> made(k)])
            /\ \A k \in 1..Len(coarse) :
                 _get_text_width(coarse[k], call.font) > call.max_width =>
                     /\ WordsOf(made(k)) = SplitWords(coarse[k])
                     /\ \A j \in 1..(Len(made(k)) - 1) :
                          _get_text_width(made(k)[j] \o <<" ">> \o SplitWords(made(k)[j + 1])[1],
                                          call.font) > call.max_width

\* one coarse line wider than max width was re-split into several lines,
\* the first of several words, and the first word of the second line did
\* not fit on the first
C27_Witness ==
    /\ Wrapped
    /\ Len(CoarseLines(call.text)) = 1
    /\ _get_text_width(CoarseLines(call.text)[1], call.font) > call.max_width
    /\ Len(lines_out) >= 2
    /\ Len(SplitWords(lines_out[1])) >= 2
    /\ _get_text_width(lines_out[1] \o <<" ">> \o SplitWords(lines_out[2])[1], call.font)
          > call.max_width

\* a string without its leading and trailing spaces
Strip(str) ==
    LET inked == {i \in 1..Len(str) : ~IsSpace(str[i])}
    IN  IF inked = {} THEN <<>>
        ELSE SubSeq(str, CHOOSE i \in inked : \A j \in inked : i <= j,
                         CHOOSE i \in inked : \A j \in inked : j <= i)

\* C28 as stated: every display line has at most 50 characters, and every
\* paragraph of more than 50 characters gives several display lines.
C28_CharacterCap ==
    Wrapped =>
        LET paragraphs == SplitNewline(call.text)
        IN  /\ \A i \in 1..Len(lines_out) : Len(lines_out[i]) <= WrapWidth
            /\ \A k \in 1..Len(paragraphs) :
                 Len(paragraphs[k]) > WrapWidth =>
                     Len(WrapParagraph(paragraphs[k], call.font, call.max_width)) >= 2

\* C28 amended: every display line has at most 50 characters, whatever the
\* font and max width, and every paragraph that has more than 50 characters
\* between its first and its last non-space character gives several
\* display lines.
C28_CharacterCapStripped ==
    Wrapped =>
        LET paragraphs == SplitNewline(call.text)
        IN  /\ lines_out = Flatten([k \in 1..Len(paragraphs) |->
                               WrapParagraph(paragraphs[k], call.font, call.max_width)])
            /\ \A i \in 1..Len(lines_out) : Len(lines_out[i]) <= WrapWidth
            /\ \A k \in 1..Len(paragraphs) :
                 Len(Strip(paragraphs[k])) > WrapWidth =>
                     Len(WrapParagraph(paragraphs[k], call.font, call.max_width)) >= 2

\* a paragraph of more than 50 characters that measures less than max width
\* has been split into lines of at most 50 characters
C28_Witness ==
    /\ Wrapped
    /\ Len(SplitNewline(call.text)) = 1 /\ Len(Strip(call.text)) > WrapWidth
    /\ _get_text_width(call.text, call.font) <= call.max_width
    /\ Len(lines_out) >= 2
    /\ \A i \in 1..Len(lines_out) : Len(lines_out[i]) <= WrapWidth

-----------------------------------------------------------------------------
(* Properties of _calculate_text_size, under SpecSize *)

Sized == call.fn = "_calculate_text_size" /\ result.returned
size_out == result.value

\* C10: for n >= 1 lines the block is as wide as its widest line and
\* n * line_height + (n - 1) * line_spacing high, line_height the probe's.
C10_BlockSize ==
    Sized /\ call.lines # <<>> =>
        LET n == Len(call.lines)
            widths == {_get_text_width(call.lines[i], call.font) : i \in 1..n}
        IN  /\ size_out[1] \in widths
            /\ \A w \in widths : w <= size_out[1]
            /\ size_out[2] = n * ProbeLineHeight(call.font) + (n - 1) * call.line_spacing

\* several lines of different widths, with spacing, have been sized
C10_Witness ==
    /\ Sized /\ Len(call.lines) >= 2 /\ call.line_spacing > 0
    /\ \E i, j \in 1..Len(call.lines) :
         _get_text_width(call.lines[i], call.font) < _get_text_width(call.lines[j], call.font)

-----------------------------------------------------------------------------
(* Properties of _calculate_position, under SpecPosition *)

Positioned == call.fn = "_calculate_position" /\ result.returned
origin_out == result.value

\* the value of the anchor formula of a keyword, before clamping
AnchorX(c) ==
    IF c.position = "left" THEN c.margin
    ELSE IF c.position = "right" THEN c.img_width - c.text_width - c.margin
    ELSE (c.img_width - c.text_width) \div 2

AnchorY(c) ==
    IF c.position = "top" THEN c.margin
    ELSE IF c.position = "bottom" THEN c.img_height - c.text_height - c.margin
    ELSE (c.img_height - c.text_height) \div 2

\* C11: each coordinate of the origin whose anchor formula is non-negative
\* is the value of the formula of the position keyword (center, top, bottom,
\* left, right; halves rounded down), an unrecognized keyword gives the
\* origin of center, and 400x300 with a 100x20 block, margin 10 and "bottom"
\* gives (150, 270).
C11_AnchorRules ==
    Positioned =>
        /\ AnchorX(call) >= 0 => origin_out[1] = AnchorX(call)
        /\ AnchorY(call) >= 0 => origin_out[2] = AnchorY(call)
        /\ call.position \notin {"center", "top", "bottom", "left", "right"} =>
              origin_out = _calculate_position(call.img_width, call.img_height,
                                               call.text_width, call.text_height,
                                               "center", call.margin)
        /\ ( /\ call.img_width = 400 /\ call.img_height = 300
             /\ call.text_width = 100 /\ call.text_height = 20
             /\ call.margin = 10 /\ call.position = "bottom" )
              => origin_out = <<150, 270>>

\* the scenario of the 400x300 image has been computed
C11_Witness ==
    /\ Positioned
    /\ call.img_width = 400 /\ call.img_height = 300
    /\ call.text_width = 100 /\ call.text_height = 20
    /\ call.margin = 10 /\ call.position = "bottom"
    /\ origin_out = <<150, 270>>

\* C12: both coordinates of the origin are at least 0, whatever the sizes,
\* the keyword and the margin, and nothing but that floor is applied: a
\* coordinate is 0 or the value of its anchor formula.
C12_OriginClamping ==
    Positioned =>
        /\ origin_out[1] >= 0 /\ origin_out[2] >= 0
        /\ origin_out[1] = Max(0, AnchorX(call))
        /\ origin_out[2] = Max(0, AnchorY(call))

\* a block larger than the image, placed with a negative margin, has its
\* origin floored at 0 and extends past the right and the bottom edges
C12_Witness ==
    /\ Positioned
    /\ call.text_width > call.img_width /\ call.text_height > call.img_height
    /\ call.margin < 0 /\ AnchorX(call) < 0 /\ AnchorY(call) < 0
    /\ origin_out = <<0, 0>>
    /\ origin_out[1] + call.text_width > call.img_width
    /\ origin_out[2] + call.text_height > call.img_height

\* C29: for every position keyword, known or not: if margin >= 0,
\* block_width + margin <= W and block_height + margin <= H, the origin is
\* the value of the anchor formula, not clamped, and the block lies inside
\* the image: 0 <= origin_x, origin_x + block_width <= W, 0 <= origin_y,
\* origin_y + block_height <= H.
C29_BlockInsideImage ==
    ( /\ Positioned /\ call.margin >= 0
      /\ call.text_width + call.margin <= call.img_width
      /\ call.text_height + call.margin <= call.img_height ) =>
        /\ origin_out = <<AnchorX(call), AnchorY(call)>>
        /\ 0 <= origin_out[1] /\ origin_out[1] + call.text_width <= call.img_width
        /\ 0 <= origin_out[2] /\ origin_out[2] + call.text_height <= call.img_height

\* a block that fits with its margin to the pixel has been placed at the
\* right or the bottom edge: its origin is 0 on that axis, unclamped
C29_Witness ==
    /\ Positioned /\ call.margin > 0
    /\ call.text_width + call.margin = call.img_width
    /\ call.text_height + call.margin = call.img_height
    /\ call.position \in {"right", "bottom"}
    /\ \/ call.position = "right" /\ AnchorX(call) = 0
       \/ call.position = "bottom" /\ AnchorY(call) = 0
    /\ origin_out = <<AnchorX(call), AnchorY(call)>>

-----------------------------------------------------------------------------
(* Properties of _draw_text, under SpecDraw *)

Drew == call.fn = "_draw_text" /\ result.returned
drawn == result.value.px

\* C13: a display line of width lw in a block of width bw is drawn at
\* x = origin_x for "left", origin_x + (bw - lw) / 2 rounded down for
\* "center" and origin_x + (bw - lw) for "right"; bw = 200, lw = 120,
\* "right" and origin_x = 50 give x = 130.
C13_AlignmentRules ==
    Drew =>
        /\ Len(drawn) = Len(call.lines)
        /\ \A i \in 1..Len(call.lines) :
             LET lw == _get_text_width(call.lines[i], call.font)
                 bw == BlockWidth(call)
             IN  /\ call.alignment = "left" => drawn[i].xy[1] = call.x
                 /\ call.alignment = "center" => drawn[i].xy[1] = call.x + (bw - lw) \div 2
                 /\ call.alignment = "right" => drawn[i].xy[1] = call.x + (bw - lw)
                 /\ (call.alignment = "right" /\ bw = 200 /\ lw = 120 /\ call.x = 50)
                       => drawn[i].xy[1] = 130

\* a line 120 wide has been drawn right-aligned in a block 200 wide at 50
C13_Witness ==
    /\ Drew /\ call.alignment = "right" /\ call.x = 50 /\ BlockWidth(call) = 200
    /\ \E i \in 1..Len(call.lines) :
         /\ _get_text_width(call.lines[i], call.font) = 120
         /\ drawn[i].xy[1] = 130

\* C14: with an alignment keyword other than "left", "center" and "right"
\* the renderer does not raise and draws every line where "center" puts it,
\* at x = origin_x + (block_width - line_width) / 2.
C14_UnknownAlignment ==
    (/\ call.fn = "_draw_text" /\ result # Pending
     /\ call.alignment \notin {"left", "center", "right"}
     /\ ~DrawRaises(call.lines, call.color)) =>
        /\ Drew
        /\ \A i \in 1..Len(call.lines) :
             drawn[i].xy[1] = call.x + (BlockWidth(call)
                                          - _get_text_width(call.lines[i], call.font)) \div 2

\* C15: the line of index i (from 0) is drawn at
\* y = origin_y + i * (line_height + line_spacing), the lines in the order
\* of the sequence, a blank line drawn and advancing y like any other.
C15_VerticalPlacement ==
    Drew =>
        /\ Len(drawn) = Len(call.lines)
        /\ \A i \in 1..Len(call.lines) :
             /\ drawn[i].op = "text"
             /\ drawn[i].text = call.lines[i]
             /\ drawn[i].xy[2] = call.y + (i - 1) * (ProbeLineHeight(call.font)
                                                       + call.line_spacing)

\* a line has been drawn below two blank lines, with spacing, from y = 30
C15_Witness ==
    /\ Drew /\ call.y = 30 /\ call.line_spacing = 10 /\ Len(call.lines) = 4
    /\ call.lines[2] = <<>> /\ call.lines[3] = <<>>
    /\ drawn[4].text = call.lines[4]
    /\ drawn[4].xy[2] = 30 + 3 * (ProbeLineHeight(call.font) + 10)

-----------------------------------------------------------------------------
(* Properties of _add_text_background, under SpecPlate *)

Plated == call.fn = "_add_text_background" /\ result.returned
plate_out == result.value.image.px[Len(result.value.image.px)]
data_out == result.value.data

\* C18: for an opacity in (0, 1], every pixel inside the plate rectangle and
\* every colour channel c: the value after the compositor step is
\* plate_color[c] * opacity + existing[c] * (1 - opacity), within one level
\* of rounding, with the opacity an 8-bit alpha (within 1/255 of opacity),
\* also when the source pixel is partially transparent.
C18_PlateBlending ==
    (Plated /\ call.opacity <= 10) =>
        \A xy \in Coords(call.image) :
            InBox(plate_out.box, xy) =>
                \A c \in 1..3 :
                    \E alpha \in {(255 * call.opacity) \div 10, (255 * call.opacity) \div 10 + 1} :
                        Abs(255 * data_out[xy][c]
                              - (call.color[c] * alpha + call.content[c] * (255 - alpha))) <= 255

\* C19: after the compositor step every pixel outside the plate rectangle
\* has every channel, alpha included, as in the input image, and the image
\* keeps its pixel mode.
C19_OutsideUnchanged ==
    Plated =>
        /\ result.value.image.mode = call.image.mode
        /\ \A xy \in Coords(call.image) :
             ~InBox(plate_out.box, xy) => data_out[xy] = call.content

-----------------------------------------------------------------------------
(* Properties of _get_font, under SpecFont *)

FontReturned == call.fn = "_get_font" /\ result.returned
font_out == result.value

\* the first path of a list that is installed and loads at the size, 0 if none
RECURSIVE FirstThatLoads(_, _)
FirstThatLoads(paths, size) ==
    IF paths = <<>> THEN 0
    ELSE IF Head(paths) \in fs \ unloadable /\ size > 0 THEN 1
    ELSE LET k == FirstThatLoads(Tail(paths), size) IN IF k = 0 THEN 0 ELSE k + 1

\* the font the cascade over a list of paths ends with
CascadeFont(paths, size) ==
    LET k == FirstThatLoads(paths, size)
    IN  IF k = 0 THEN DefaultFont ELSE TrueTypeFont(paths[k], size)

\* C21: for a style keyword the resolver returns the first font that loads
\* among the style candidates (file name, then directory) followed by the
\* global list of system fonts, a candidate that is present but does not
\* load being skipped; the built-in font only when none of them loads.
C21_FallbackCascade ==
    (FontReturned /\ call.style # None) =>
        font_out = CascadeFont(StyleCandidates(call.style) \o default_fonts, call.size)

\* C22: "Serif", "SERIF" and "serif" select the candidate list of "serif"
\* and give the same font; a style outside the known set has no candidate
\* and gives the first loadable font of the global list, else the built-in.
C22_StyleMatching ==
    (FontReturned /\ call.style # None) =>
        /\ call.style \in {"Serif", "SERIF", "serif"} =>
              /\ StyleCandidates(call.style) = StyleCandidates("serif")
              /\ StyleCandidates(call.style) # <<>>
              /\ font_out = _get_font(call.size, "serif", default_fonts, fs, unloadable)
        /\ call.style \notin {"Serif", "SERIF", "serif", "arial"} =>
              /\ StyleCandidates(call.style) = <<>>
              /\ font_out = CascadeFont(default_fonts, call.size)

\* "SERIF" has selected a serif candidate that is not the head of the
\* global list, which is installed too
C22_Witness ==
    /\ FontReturned /\ call.style = "SERIF" /\ call.size > 0
    /\ default_fonts # <<>> /\ default_fonts[1] \in fs \ unloadable
    /\ font_out.kind = "truetype" /\ font_out.path # default_fonts[1]
    /\ \E k \in 1..Len(StyleCandidates("serif")) : StyleCandidates("serif")[k] = font_out.path

-----------------------------------------------------------------------------
(* Properties of the editing controls, under SpecApp *)

InSession == call.fn = "add_editing_controls"

\* the image shown for index i
Shown(i) == heap[session_state.edited_images[i]]

\* the pixels of one pass over the generated image i, for some widget values
OnePass(i) ==
    { edited_image(GeneratedImages[i], s, fs, unloadable, strict) :
        s \in AppSettings, strict \in BOOLEAN }

\* the display lines of the poem on the generated image i, in the one font
\* the widgets offer here
PoemLines(i) ==
    _wrap_text(session_state.current_poem,
               _get_font(24, "serif", default_fonts, fs, unloadable),
               (GeneratedImages[i].width * DefaultStyle.max_width_ratio) \div 10)

\* C30: after any sequence of Apply Changes and Reset to Original on any
\* index i, session_state.images[i] is the generated image, unchanged, and
\* session_state.edited_images[i] is the original or a copy of it, or the
\* result of exactly one edit-and-overlay pass applied to the original: the
\* text is drawn at most once and the plate composited at most once.
C30_OverlayOntoBase ==
    InSession =>
        \A i \in 1..Len(GeneratedImages) :
            /\ session_state.images[i] = i
            /\ heap[i] = GeneratedImages[i]
            /\ \/ Shown(i) = GeneratedImages[i]
               \/ Shown(i) \in OnePass(i)
            /\ Cardinality(Writes(Shown(i), "plate")) <= 1
            /\ Cardinality(Writes(Shown(i), "text")) <= Len(PoemLines(i))

\* Apply Changes with the overlay was pressed for image 1, then pressed again
\* with other widget values: the image shown carries the second overlay only
C30_Witness ==
    /\ InSession
    /\ Len(heap) = 4
    /\ Writes(heap[3], "text") # {} /\ Writes(heap[3], "plate") # {}
    /\ session_state.edited_images = <<4, 2>>
    /\ Writes(heap[4], "text") # {} /\ Writes(heap[4], "plate") = {}
    /\ session_state.reset_counter = <<0, 0>>

====
